---- MODULE Spec2Model ----
(***************************************************************************)
(* Model of the capture poller of discord-agent-bridge                     *)
(* (capture/poller.ts, capture/detector.ts, capture/parser.ts).            *)
(*                                                                         *)
(* Text is a sequence of one-character strings.  A poll tick is the async  *)
(* function pollAll; it is modelled as a run whose position (pc) advances  *)
(* from one await on the chat or hook collaborator to the next, the code   *)
(* between two awaits being one atomic step, as on the JavaScript event    *)
(* loop.                                                                   *)
(*                                                                         *)
(* Spec        : every tick finishes before pollAll is entered again       *)
(*               (all awaited sends and hooks resolve within the poll      *)
(*               interval and start() is not called during a tick).        *)
(* SpecOverlap : setInterval enters pollAll whenever the interval expires, *)
(*               also while an earlier tick still awaits a send.           *)
(* SpecFaulty  : as Spec, with sends that may fail and hooks that may      *)
(*               reject; stop() is not called.                             *)
(* SpecNames   : as Spec, the project names and agent types being any      *)
(*               distinct pairs of names.                                  *)
(* SpecRestart : as Spec, with start() called also while the poller runs.  *)
(* SpecPush    : as Spec, together with the /opencode-event endpoint of    *)
(*               AgentBridge (index.ts).                                   *)
(* SpecSubmit  : one execution of CodexSubmitter.submit                    *)
(*               (codex-submitter.ts).                                     *)
(* SpecPending : as SpecRoute, for several messages of one text.           *)
(* SpecRoute   : the handler of chat messages of AgentBridge.start        *)
(*               (index.ts), one message at a time, with submit() and with *)
(*               the hooks the poller calls on the pending message.        *)
(***************************************************************************)
EXTENDS Integers, Sequences, FiniteSets, TLC

\* ------------------------------------------------------------------ bounds

\* Capture attempts (tmux.capturePaneFromWindow calls) the environment serves.
MaxCaptures == 4

\* pollAll invocations that may be in flight at once under SpecOverlap, and
\* the capture attempts served there.
MaxInflight == 2
MaxCapturesOverlap == 4

\* The capture attempts served under SpecFaulty.
MaxCapturesFaulty == 4

\* The capture attempts served under SpecPush, and the messages the event
\* endpoint sends there.
MaxCapturesPush == 3
MaxPushes == 1

\* The largest value of AGENT_DISCORD_SUBMIT_RETRIES under SpecSubmit.
MaxRetries == 2

\* The capture attempts served under SpecNames.
MaxCapturesNames == 3

\* The capture attempts served under SpecRestart.
MaxCapturesRestart == 3

\* The chat messages routed to agents.
MaxMessages == 1

\* The chat messages routed to agents under SpecPending.
MaxPendingMessages == 2

\* The largest stableCount handed to detectState.
MaxStable == 2

\* The length of the raw texts handed to cleanCapture.
MaxRawLen == 6

\* The length of the texts handed to splitForDiscord, and the largest maxLen.
MaxSplitLen == 5
MaxLimit == 3

\* ------------------------------------------------------------- characters

ESC == "ESC"
BEL == "BEL"
NL == "\n"
SP == " "

Digits == {"0", "1", "2", "3", "4", "5", "6", "7", "8", "9"}
Upper == {"A", "B", "C", "D", "E", "F", "G", "H", "I", "J", "K", "L", "M",
          "N", "O", "P", "Q", "R", "S", "T", "U", "V", "W", "X", "Y", "Z"}
Lower == {"a", "b", "c", "d", "e", "f", "g", "h", "i", "j", "k", "l", "m",
          "n", "o", "p", "q", "r", "s", "t", "u", "v", "w", "x", "y", "z"}

\* JavaScript's null / undefined, kept apart from every text.
Null == <<"<null>">>

\* String.prototype.trim / trimStart / trimEnd strip these.
IsSpace(c) == c \in {SP, NL, "\t", "\r"}

RECURSIVE trimStart(_)
trimStart(s) ==
    IF s # <<>> /\ IsSpace(Head(s)) THEN trimStart(Tail(s)) ELSE s

RECURSIVE trimEnd(_)
trimEnd(s) ==
    IF s # <<>> /\ IsSpace(s[Len(s)])
    THEN trimEnd(SubSeq(s, 1, Len(s) - 1))
    ELSE s

trim(s) == trimEnd(trimStart(s))

\* ------------------------------------------------------------ parser.ts

\* [0-9;]* from position i: the first position that is not a parameter char.
RECURSIVE SkipCsiParams(_, _)
SkipCsiParams(s, i) ==
    IF i <= Len(s) /\ s[i] \in (Digits \cup {";"})
    THEN SkipCsiParams(s, i + 1)
    ELSE i

\* .*?(?:\x07|\x1B\\) from position i: the position after the terminator of
\* the shortest match, 0 when there is none ('.' does not match a line end).
RECURSIVE OscEnd(_, _)
OscEnd(s, i) ==
    IF i > Len(s) THEN 0
    ELSE IF s[i] = BEL THEN i + 1
    ELSE IF s[i] = ESC /\ i + 1 <= Len(s) /\ s[i + 1] = "\\" THEN i + 2
    ELSE IF s[i] \in {NL, "\r"} THEN 0
    ELSE OscEnd(s, i + 1)

\* ANSI_REGEX anchored at position i (s[i] = ESC): the position after the
\* match, 0 when the regex does not match there.
AnsiMatchEnd(s, i) ==
    IF i + 1 > Len(s) THEN 0
    ELSE IF s[i + 1] = "["
      THEN LET j == SkipCsiParams(s, i + 2)
           IN  IF j <= Len(s) /\ s[j] \in (Upper \cup Lower) THEN j + 1 ELSE 0
    ELSE IF s[i + 1] = "]" THEN OscEnd(s, i + 2)
    ELSE IF s[i + 1] = "("
      THEN IF i + 2 <= Len(s) /\ s[i + 2] \in Upper THEN i + 3 ELSE 0
    ELSE 0

RECURSIVE StripFrom(_, _)
StripFrom(s, i) ==
    IF i > Len(s) THEN <<>>
    ELSE IF s[i] = ESC /\ AnsiMatchEnd(s, i) # 0
      THEN StripFrom(s, AnsiMatchEnd(s, i))
    ELSE <<s[i]>> \o StripFrom(s, i + 1)

\* text.replace(ANSI_REGEX, '')
stripAnsi(text) == StripFrom(text, 1)

\* text.split('\n')
RECURSIVE SplitLines(_)
SplitLines(s) ==
    IF \A i \in 1..Len(s) : s[i] # NL THEN <<s>>
    ELSE LET k == CHOOSE i \in 1..Len(s) :
                      s[i] = NL /\ \A j \in 1..(i - 1) : s[j] # NL
         IN  <<SubSeq(s, 1, k - 1)>> \o SplitLines(SubSeq(s, k + 1, Len(s)))

\* lines.join('\n')
RECURSIVE JoinLines(_)
JoinLines(lines) ==
    IF lines = <<>> THEN <<>>
    ELSE IF Len(lines) = 1 THEN lines[1]
    ELSE lines[1] \o <<NL>> \o JoinLines(Tail(lines))

RECURSIVE DropTrailingBlank(_)
DropTrailingBlank(lines) ==
    IF lines # <<>> /\ trim(lines[Len(lines)]) = <<>>
    THEN DropTrailingBlank(SubSeq(lines, 1, Len(lines) - 1))
    ELSE lines

\* stripAnsi, then the trailing blank lines removed.
cleanCapture(text) == JoinLines(DropTrailingBlank(SplitLines(stripAnsi(text))))

\* Chat message size limit, the default of splitForDiscord's maxLen.
DefaultMaxLen == 1900

\* Mutant: the line end that joins the line to the chunk is not counted.
Overflows_NoSeparator(current, line, maxLen) ==
    Len(current) + Len(line) > maxLen

\* current.length + line.length + 1 > maxLen
Overflows(current, line, maxLen) ==
    Len(current) + Len(line) + 1 > maxLen

\* The for loop of splitForDiscord over lines[i..], with the chunks pushed so
\* far and the chunk being filled.
RECURSIVE SplitLoop(_, _, _, _, _)
SplitLoop(lines, i, chunks, current, maxLen) ==
    IF i > Len(lines)
    THEN IF current # <<>> THEN Append(chunks, current) ELSE chunks
    ELSE IF Overflows(current, lines[i], maxLen)
      THEN SplitLoop(lines, i + 1,
                     IF current # <<>> THEN Append(chunks, current) ELSE chunks,
                     lines[i], maxLen)
    ELSE SplitLoop(lines, i + 1, chunks,
                   (IF current # <<>> THEN current \o <<NL>> ELSE <<>>) \o lines[i],
                   maxLen)

splitForDiscord(text, maxLen) ==
    IF Len(text) <= maxLen THEN <<text>>
    ELSE SplitLoop(SplitLines(text), 1, <<>>, <<>>, maxLen)

\* ----------------------------------------------------------- detector.ts

\* Mutant: the first capture is looked for before the missing session.
detectState_PreviousFirst(current, previous, stableCount) ==
    IF previous = Null THEN "working"
    ELSE IF current = Null THEN "offline"
    ELSE IF current # previous THEN "working"
    ELSE "stopped"

detectState(current, previous, stableCount) ==
    IF current = Null THEN "offline"
    ELSE IF previous = Null THEN "working"
    ELSE IF current # previous THEN "working"
    ELSE "stopped"

\* ------------------------------------------------------------- poller.ts

ProjectA == <<"a">>
ProjectB == <<"b">>
AgentClaude == <<"c", "l", "a", "u", "d", "e">>

\* The (project, agent) pairs of stateManager.listProjects(), in iteration order.
TargetOrder == << <<ProjectA, AgentClaude>>, <<ProjectB, AgentClaude>> >>
Targets == {TargetOrder[i] : i \in 1..Len(TargetOrder)}

ChannelOf(t) == <<"ch">> \o t[1]

\* What tmux.capturePaneFromWindow may return.
RawCaptures ==
    { <<>>,
      <<ESC, "[", "0", "m", "x">>,
      <<"y", NL, SP, NL>>,
      <<NL, "x">> }

\* The notices, written in ASCII: the "working..." notice (poller.ts line 111),
\* the "session ended" notice (line 96) and the header of the completion
\* message (line 129), each header character one element.
WorkingNotice == <<"working...">>
EndedNotice == <<"session ended">>
\* Three backticks, each written BT.
Fence == <<"BT", "BT", "BT">>
CompletedHeader == <<"#", SP, "*", "*", "d", "o", "n", "e", "*", "*">>

\* header, line end, fence, line end, content, line end, fence
CompletionMessage(content) ==
    CompletedHeader \o <<NL>> \o Fence \o <<NL>> \o content \o <<NL>> \o Fence

\* Mutant: a new target counts as already announced.
defaultPollState_Notified ==
    [previousCapture |-> Null, lastReportedCapture |-> Null,
     stableCount |-> 0, notifiedWorking |-> TRUE]

defaultPollState ==
    [previousCapture |-> Null, lastReportedCapture |-> Null,
     stableCount |-> 0, notifiedWorking |-> FALSE]

VARIABLES
    names,            \* project.projectName and agentType, per target
    agents,           \* project.agents[agentType], per target
    eventHooks,       \* project.eventHooks?.[agentType], per target
    discordChannels,  \* project.discordChannels[agentType], Null when unset
    states,           \* CapturePoller.states: poll key -> PollState
    timer,            \* CapturePoller.timer is set
    intervals,        \* the interval timers of setInterval not yet cleared
    runs,             \* the pollAll invocations in flight and their positions
    captures,         \* capture attempts handed out to started ticks
    log,              \* per target: the sends and hook calls made, in order
    captured,         \* per target: the capture results seen, in order
    lastPoll,         \* per target: summary of the last finished pollAgent
    pushed,           \* per target: the messages sent by handleOpencodeEvent
    submit,           \* the execution of CodexSubmitter.submit
    route,            \* the message handler of AgentBridge.start and
                      \* AgentBridge.pendingMessageByAgent
    call              \* a call of a function of detector.ts or parser.ts:
                      \* its arguments and, once it has returned, its result;
                      \* under SpecRestart the latest call of start() and
                      \* whether it found the poller running

vars == <<names, agents, eventHooks, discordChannels, states, timer, intervals, runs,
          captures, log, captured, lastPoll, pushed, submit, route, call>>

\* What the poller never touches.
outside == <<pushed, submit, route, call>>

config == <<names, agents, eventHooks, discordChannels>>

\* The poller and the project list it reads.
pollerVars == <<config, states, timer, intervals, runs, captures, log, captured,
                lastPoll>>

\* `${project.projectName}:${agentType}`
PollKey(t) == names[t][1] \o <<":">> \o names[t][2]

Fail == <<"<throws>">>
NoPoll == [cls |-> "none", before |-> defaultPollState, capture |-> Null,
           emitted |-> <<>>]

IdleRun == [pc |-> "idle", idx |-> 0, capture |-> Null, chunks |-> <<>>,
            cls |-> "none", before |-> defaultPollState, emitted |-> <<>>]

SendEvent(msg) == <<"send", msg>>

\* A send that the chat client did not deliver.
FailedSend(msg) == <<"send", msg, "failed">>

Sent(msg, ok) == IF ok THEN SendEvent(msg) ELSE FailedSend(msg)

\* console.error in the catch block of pollAll's loop
ErrorEvent == <<"caught", <<"pollAll">>>>
HookEvent(name) == <<"hook", <<name>>>>

\* this.states.get(key) || defaultPollState()
GetState(k) == IF k \in DOMAIN states THEN states[k] ELSE defaultPollState

SetState(k, st) == [x \in (DOMAIN states) \cup {k} |-> IF x = k THEN st ELSE states[x]]

\* Mutant: pollAll does not look at the eventHooks flag.
Eligible_NoHookCheck(t) == agents[t]

\* if (!enabled) continue; if (project.eventHooks?.[agentType]) continue;
Eligible(t) == agents[t] /\ ~eventHooks[t]

Pollable(t) == Eligible(t) /\ discordChannels[t] # Null

NumPollable == Cardinality({t \in Targets : Pollable(t)})

\* The settings of one (project, agent) pair in the state file: polled, agent
\* disabled, flagged as event-push, or without a channel id.
TargetSettings ==
    { [enabled |-> TRUE, eventHook |-> FALSE, hasChannel |-> TRUE],
      [enabled |-> FALSE, eventHook |-> FALSE, hasChannel |-> TRUE],
      [enabled |-> TRUE, eventHook |-> TRUE, hasChannel |-> TRUE],
      [enabled |-> TRUE, eventHook |-> FALSE, hasChannel |-> FALSE] }

NotSubmitting == [pc |-> "idle", prompt |-> <<>>, retries |-> 0, i |-> 0,
                  typedCapture |-> <<>>, after |-> <<>>, keys |-> <<>>,
                  checks |-> <<>>, result |-> "none"]

\* The agent types a channel can be mapped to.
AgentTypes == {"codex", "opencode", "claude"}

\* No message received yet, pendingMessageByAgent empty.  Messages are
\* numbered in the order of their arrival; received (the content as it came),
\* forwarded (the text handed to the tmux layer or to submit()), reaction,
\* marks (the reactions put in place of the hourglass, in order), notices,
\* calls, typed and results are kept per message, the m-th element being
\* that of message m.  hook is the message that
\* a mark function called by the poller is replacing the reaction of, and
\* hookAgent the agent type it was called for.
NotRouting ==
    [pc |-> "idle", n |-> 0, agentType |-> "codex", content |-> <<>>,
     marked |-> FALSE, notice |-> "none",
     pending |-> [a \in AgentTypes |-> 0],
     received |-> <<>>, forwarded |-> <<>>, reaction |-> <<>>,
     marks |-> <<>>, hook |-> 0, hookAgent |-> "codex",
     notices |-> <<>>, calls |-> <<>>, typed |-> <<>>, results |-> <<>>,
     lastActive |-> 0]

\* No function of detector.ts or parser.ts is being followed.
NoCall == [fn |-> "none"]

\* The state files with at least one target that is polled.
Settings ==
    { cfg \in [Targets -> TargetSettings] :
         \E t \in Targets : cfg[t].enabled /\ ~cfg[t].eventHook /\ cfg[t].hasChannel }

\* The state file in which every target is polled.
AllPolled == [t \in Targets |-> [enabled |-> TRUE, eventHook |-> FALSE,
                                 hasChannel |-> TRUE]]

\* The names that do not contain the separator of the poll key.
PlainNames == [t \in Targets |-> t]

\* Project names and agent types, some with the separator in them.
NamePairs ==
    { <<p, a>> : p \in { <<"a">>, <<"a", ":", "a">> },
                a \in { <<"c">>, <<"a", ":", "c">> } }

\* The state files in which the two targets are distinct pairs of names.
Namings ==
    { nm \in [Targets -> NamePairs] : nm[TargetOrder[1]] # nm[TargetOrder[2]] }

\* The bridge after construction with the state file of the names nm and the
\* settings cfg, and the function call c that is followed.
InitNamed(nm, cfg, c) ==
    /\ names = nm
    /\ agents = [t \in Targets |-> cfg[t].enabled]
    /\ eventHooks = [t \in Targets |-> cfg[t].eventHook]
    /\ discordChannels =
          [t \in Targets |-> IF cfg[t].hasChannel THEN ChannelOf(t) ELSE Null]
    /\ states = << >>
    /\ timer = FALSE
    /\ intervals = 0
    /\ runs = [r \in 1..MaxInflight |-> IdleRun]
    /\ captures = 0
    /\ log = [t \in Targets |-> <<>>]
    /\ captured = [t \in Targets |-> <<>>]
    /\ lastPoll = [t \in Targets |-> NoPoll]
    /\ pushed = [t \in Targets |-> <<>>]
    /\ submit = NotSubmitting
    /\ route = NotRouting
    /\ call = c

InitWith(cfg, c) == InitNamed(PlainNames, cfg, c)

Init == \E cfg \in Settings : InitWith(cfg, NoCall)

\* Mutant: the catch block announces the end whatever the flag says.
OfflineNotifies_Always(st) == TRUE

\* if (state.notifiedWorking) in the catch block -- poller.ts line 94
OfflineNotifies(st) == st.notifiedWorking

\* Mutant: the "working..." notice is sent on every working tick.
NotifyWorkingNow_Always(st) == TRUE

\* if (!state.notifiedWorking) -- poller.ts line 110
NotifyWorkingNow(st) == ~st.notifiedWorking

\* Mutant: the completion does not look at the notifiedWorking flag.
IsCompletionTick_NoFlag(st) == st.stableCount >= 1

\* Mutant: the completion waits for a second tick without change.
IsCompletionTick_SecondTick(st) == st.stableCount = 2 /\ st.notifiedWorking

\* if (state.stableCount === 1 && state.notifiedWorking) -- line 121
IsCompletionTick(st) == st.stableCount = 1 /\ st.notifiedWorking

\* Mutant: the completion carries the capture as it is, untrimmed.
CompletionContent_Raw(capture) == capture

\* const content = capture.trim() -- line 124
CompletionContent(capture) == trim(capture)

\* Mutant: the content is compared with previousCapture.
HasNewContent_Prev(content, st) == content # <<>> /\ content # st.previousCapture

\* if (content && content !== state.lastReportedCapture) -- line 128
HasNewContent(content, st) == content # <<>> /\ content # st.lastReportedCapture

\* The run r is inside pollAll's loop, about to handle the next target.
AtLoop(r) == runs[r].pc = "loop" /\ runs[r].idx <= Len(TargetOrder)

TargetOf(r) == TargetOrder[runs[r].idx]

Emit(t, ev) == log' = [log EXCEPT ![t] = Append(@, ev)]

\* pollAgent returns to pollAll's loop, which moves on to the next target.
Return(r, t, cls, before, capture, emitted) ==
    /\ lastPoll' = [lastPoll EXCEPT ![t] =
                       [cls |-> cls, before |-> before, capture |-> capture,
                        emitted |-> emitted]]
    /\ runs' = [runs EXCEPT ![r] =
                   [IdleRun EXCEPT !.pc = "loop", !.idx = runs[r].idx + 1]]

Suspend(r, pc, ev) ==
    runs' = [runs EXCEPT ![r].pc = pc, ![r].emitted = Append(@, ev)]

\* Mutant: the loop of pollAll has no catch, the exception ends the tick.
Caught_Rethrown(r) ==
    LET t == TargetOf(r)
    IN  /\ Emit(t, ErrorEvent)
        /\ lastPoll' = [lastPoll EXCEPT ![t] =
                           [cls |-> runs[r].cls, before |-> runs[r].before,
                            capture |-> runs[r].capture,
                            emitted |-> Append(runs[r].emitted, ErrorEvent)]]
        /\ runs' = [runs EXCEPT ![r] = IdleRun]

\* catch (error) { console.error(...) } in pollAll: on to the next target.
Caught(r) ==
    LET t == TargetOf(r)
    IN  /\ Emit(t, ErrorEvent)
        /\ Return(r, t, runs[r].cls, runs[r].before, runs[r].capture,
                  Append(runs[r].emitted, ErrorEvent))

\* No pollAll is executing: each is finished or suspended at an await on the
\* chat collaborator, so the event loop takes the next timer or I/O callback.
EventLoopIdle == \A r \in 1..MaxInflight : runs[r].pc # "loop"

\* pollAll is entered: listProjects(), then the loop from the first target.
Entered(r, limit) ==
    /\ EventLoopIdle
    /\ runs[r].pc = "idle"
    /\ \A q \in 1..(r - 1) : runs[q].pc # "idle"
    /\ captures + NumPollable <= limit
    /\ captures' = captures + NumPollable
    /\ runs' = [runs EXCEPT ![r] = [IdleRun EXCEPT !.pc = "loop", !.idx = 1]]
    /\ UNCHANGED <<config, states, log, captured, lastPoll>>

BeginTick(r, limit) == Entered(r, limit) /\ UNCHANGED outside

NoTickInFlight == \A r \in 1..MaxInflight : runs[r].pc = "idle"

\* Mutant: start() installs the interval timer without polling first.
StartWithin_NoFirstPoll(r, limit) ==
    /\ ~timer
    /\ NoTickInFlight
    /\ captures + NumPollable <= limit
    /\ timer' = TRUE
    /\ intervals' = intervals + 1
    /\ UNCHANGED <<config, outside, states, runs, captures, log, captured, lastPoll>>

\* start(): the first poll at once, then the interval timer.
StartWithin(r, limit) ==
    /\ ~timer
    /\ NoTickInFlight
    /\ BeginTick(r, limit)
    /\ timer' = TRUE
    /\ intervals' = intervals + 1

Start(r) == StartWithin(r, MaxCaptures)

\* An interval timer expires after the previous tick has finished.
TimerFireWithin(r, limit) ==
    /\ intervals > 0
    /\ NoTickInFlight
    /\ BeginTick(r, limit)
    /\ UNCHANGED <<timer, intervals>>

TimerFire(r) == TimerFireWithin(r, MaxCaptures)

\* start() while a tick of an earlier start() is still awaiting.
StartOverlap(r) ==
    /\ ~timer
    /\ BeginTick(r, MaxCapturesOverlap)
    /\ timer' = TRUE
    /\ intervals' = intervals + 1

\* The interval expires, whatever the earlier ticks are doing.
TimerFireOverlap(r) ==
    /\ intervals > 0
    /\ BeginTick(r, MaxCapturesOverlap)
    /\ UNCHANGED <<timer, intervals>>

\* Mutant: stop() forgets the handle without clearing the interval.
Stop_NoClear ==
    /\ EventLoopIdle
    /\ timer
    /\ timer' = FALSE
    /\ UNCHANGED <<config, outside, states, intervals, runs, captures, log, captured,
                   lastPoll>>

\* stop(): clearInterval(this.timer); this.timer = undefined
Stop ==
    /\ EventLoopIdle
    /\ timer
    /\ timer' = FALSE
    /\ intervals' = intervals - 1
    /\ UNCHANGED <<config, outside, states, runs, captures, log, captured, lastPoll>>

\* The loop has gone through every target: pollAll resolves.
PollAllDone(r) ==
    /\ runs[r].pc = "loop"
    /\ runs[r].idx > Len(TargetOrder)
    /\ runs' = [runs EXCEPT ![r] = IdleRun]
    /\ UNCHANGED <<config, outside, states, timer, intervals, captures, log, captured, lastPoll>>

\* A disabled or event-push agent: continue.
PollAllSkip(r) ==
    /\ AtLoop(r)
    /\ ~Eligible(TargetOf(r))
    /\ runs' = [runs EXCEPT ![r].idx = @ + 1]
    /\ UNCHANGED <<config, outside, states, timer, intervals, captures, log, captured, lastPoll>>

\* pollAgent: the state entry is created, then no channel id: return.
PollAgentNoChannel(r) ==
    /\ AtLoop(r)
    /\ Eligible(TargetOf(r))
    /\ discordChannels[TargetOf(r)] = Null
    /\ states' = SetState(PollKey(TargetOf(r)), GetState(PollKey(TargetOf(r))))
    /\ runs' = [runs EXCEPT ![r].idx = @ + 1]
    /\ UNCHANGED <<config, outside, timer, intervals, captures, log, captured, lastPoll>>

\* pollAgent: capturePaneFromWindow throws.
PollAgentOffline(r) ==
    /\ AtLoop(r)
    /\ Pollable(TargetOf(r))
    /\ LET t == TargetOf(r)
           st == GetState(PollKey(t))
       IN  /\ states' = SetState(PollKey(t), st)
           /\ captured' = [captured EXCEPT ![t] = Append(@, Fail)]
           /\ IF OfflineNotifies(st)
              THEN /\ Emit(t, HookEvent("onAgentStopped"))
                   /\ runs' = [runs EXCEPT ![r] =
                         [@ EXCEPT !.pc = "awaitStoppedHook", !.cls = "offline",
                                   !.before = st,
                                   !.emitted = <<HookEvent("onAgentStopped")>>]]
                   /\ UNCHANGED lastPoll
              ELSE /\ Return(r, t, "offline", st, Null, <<>>)
                   /\ UNCHANGED log
    /\ UNCHANGED <<config, outside, timer, intervals, captures>>

\* onAgentStopped has resolved: send the "session ended" notice.
ResumeStoppedHook(r, ok) ==
    /\ EventLoopIdle
    /\ runs[r].pc = "awaitStoppedHook"
    /\ Emit(TargetOf(r), Sent(EndedNotice, ok))
    /\ Suspend(r, "awaitEndedSend", Sent(EndedNotice, ok))
    /\ UNCHANGED <<config, outside, states, timer, intervals, captures, captured, lastPoll>>

\* Mutant: the flag is not cleared after the "session ended" notice.
ResumeEndedSend_KeepFlag(r) ==
    /\ EventLoopIdle
    /\ runs[r].pc = "awaitEndedSend"
    /\ LET t == TargetOf(r)
       IN  /\ states' = SetState(PollKey(t), GetState(PollKey(t)))
           /\ Return(r, t, runs[r].cls, runs[r].before, Null, runs[r].emitted)
    /\ UNCHANGED <<config, outside, timer, intervals, captures, log, captured>>

\* Mutant: the poll state is reset when the session has ended.
ResumeEndedSend_Reset(r) ==
    /\ EventLoopIdle
    /\ runs[r].pc = "awaitEndedSend"
    /\ LET t == TargetOf(r)
       IN  /\ states' = SetState(PollKey(t), defaultPollState)
           /\ Return(r, t, runs[r].cls, runs[r].before, Null, runs[r].emitted)
    /\ UNCHANGED <<config, outside, timer, intervals, captures, log, captured>>

\* The send has resolved: state.notifiedWorking = false; return.
ResumeEndedSend(r) ==
    /\ EventLoopIdle
    /\ runs[r].pc = "awaitEndedSend"
    /\ LET t == TargetOf(r)
           st == [GetState(PollKey(t)) EXCEPT !.notifiedWorking = FALSE]
       IN  /\ states' = SetState(PollKey(t), st)
           /\ Return(r, t, runs[r].cls, runs[r].before, Null, runs[r].emitted)
    /\ UNCHANGED <<config, outside, timer, intervals, captures, log, captured>>

\* The working branch of pollAgent up to its await (lines 105-114).
WorkingBranch(r, t, st, capture, ok) ==
    LET st1 == [st EXCEPT !.stableCount = 0, !.previousCapture = capture]
    IN  /\ states' = SetState(PollKey(t), st1)
        /\ IF NotifyWorkingNow(st1)
           THEN /\ Emit(t, Sent(WorkingNotice, ok))
                /\ runs' = [runs EXCEPT ![r] =
                      [@ EXCEPT !.pc = "awaitWorkingSend", !.cls = "working",
                                !.before = st, !.capture = capture,
                                !.emitted = <<Sent(WorkingNotice, ok)>>]]
                /\ UNCHANGED lastPoll
           ELSE /\ Return(r, t, "working", st, capture, <<>>)
                /\ UNCHANGED log

\* Mutant: the completion goes on without calling onAgentComplete.
StableBranch_NoHook(r, t, st, capture) ==
    LET st1 == [st EXCEPT !.stableCount = @ + 1, !.previousCapture = capture]
    IN  /\ states' = SetState(PollKey(t), st1)
        /\ UNCHANGED log
        /\ IF IsCompletionTick(st1)
           THEN /\ runs' = [runs EXCEPT ![r] =
                      [@ EXCEPT !.pc = "awaitCompleteHook", !.cls = "stopped",
                                !.before = st, !.capture = capture]]
                /\ UNCHANGED lastPoll
           ELSE Return(r, t, "stopped", st, capture, <<>>)

\* The unchanged-content branch of pollAgent up to its await (lines 117-126).
StableBranch(r, t, st, capture) ==
    LET st1 == [st EXCEPT !.stableCount = @ + 1, !.previousCapture = capture]
    IN  /\ states' = SetState(PollKey(t), st1)
        /\ IF IsCompletionTick(st1)
           THEN /\ Emit(t, HookEvent("onAgentComplete"))
                /\ runs' = [runs EXCEPT ![r] =
                      [@ EXCEPT !.pc = "awaitCompleteHook", !.cls = "stopped",
                                !.before = st, !.capture = capture,
                                !.emitted = <<HookEvent("onAgentComplete")>>]]
                /\ UNCHANGED lastPoll
           ELSE /\ Return(r, t, "stopped", st, capture, <<>>)
                /\ UNCHANGED log

\* pollAgent: the capture succeeds; clean it, classify it, act on it.
PollAgentCaptured(r, raw, ok) ==
    /\ AtLoop(r)
    /\ Pollable(TargetOf(r))
    /\ LET t == TargetOf(r)
           st == GetState(PollKey(t))
           capture == cleanCapture(raw)
       IN  /\ captured' = [captured EXCEPT ![t] = Append(@, capture)]
           /\ IF detectState(capture, st.previousCapture, st.stableCount) = "working"
              THEN WorkingBranch(r, t, st, capture, ok)
              ELSE StableBranch(r, t, st, capture)
    /\ UNCHANGED <<config, outside, timer, intervals, captures>>

IsFailedSend(ev) == ev[1] = "send" /\ Len(ev) = 3

\* Mutant: send() has no catch, a failed delivery leaves pollAgent at once.
ResumeWorkingSend_Unswallowed(r) ==
    /\ EventLoopIdle
    /\ runs[r].pc = "awaitWorkingSend"
    /\ LET t == TargetOf(r)
           st == [GetState(PollKey(t)) EXCEPT !.notifiedWorking = TRUE]
       IN  IF IsFailedSend(runs[r].emitted[Len(runs[r].emitted)])
           THEN /\ Caught(r)
                /\ UNCHANGED states
           ELSE /\ states' = SetState(PollKey(t), st)
                /\ Return(r, t, runs[r].cls, runs[r].before, runs[r].capture,
                          runs[r].emitted)
                /\ UNCHANGED log
    /\ UNCHANGED <<config, outside, timer, intervals, captures, captured>>

\* The "working..." send has settled, delivered or not (send() swallows the
\* failure): state.notifiedWorking = true; return.
ResumeWorkingSend(r) ==
    /\ EventLoopIdle
    /\ runs[r].pc = "awaitWorkingSend"
    /\ LET t == TargetOf(r)
           st == [GetState(PollKey(t)) EXCEPT !.notifiedWorking = TRUE]
       IN  /\ states' = SetState(PollKey(t), st)
           /\ Return(r, t, runs[r].cls, runs[r].before, runs[r].capture,
                     runs[r].emitted)
    /\ UNCHANGED <<config, outside, timer, intervals, captures, log, captured>>

\* Mutant: the completion records the capture but leaves the flag set.
FinishCompletion_KeepFlag(r) ==
    LET t == TargetOf(r)
        st == [GetState(PollKey(t)) EXCEPT !.lastReportedCapture = runs[r].capture]
    IN  /\ states' = SetState(PollKey(t), st)
        /\ Return(r, t, runs[r].cls, runs[r].before, runs[r].capture,
                  runs[r].emitted)
        /\ UNCHANGED log

\* Lines 135-136, then pollAgent returns.
FinishCompletion(r) ==
    LET t == TargetOf(r)
        st == [GetState(PollKey(t)) EXCEPT
                  !.lastReportedCapture = runs[r].capture,
                  !.notifiedWorking = FALSE]
    IN  /\ states' = SetState(PollKey(t), st)
        /\ Return(r, t, runs[r].cls, runs[r].before, runs[r].capture,
                  runs[r].emitted)
        /\ UNCHANGED log

\* Send the next chunk of the completion message and await it; with no chunk
\* left, finish.
SendChunks(r, chunks, ok) ==
    IF chunks # <<>>
    THEN /\ Emit(TargetOf(r), Sent(Head(chunks), ok))
         /\ runs' = [runs EXCEPT ![r] =
               [@ EXCEPT !.pc = "awaitChunkSend", !.chunks = Tail(chunks),
                         !.emitted = Append(@, Sent(Head(chunks), ok))]]
         /\ UNCHANGED <<states, lastPoll>>
    ELSE FinishCompletion(r)

\* onAgentComplete has resolved: lines 128-136.
ResumeCompleteHook(r, ok) ==
    /\ EventLoopIdle
    /\ runs[r].pc = "awaitCompleteHook"
    /\ LET content == CompletionContent(runs[r].capture)
       IN  IF HasNewContent(content, GetState(PollKey(TargetOf(r))))
           THEN SendChunks(r, splitForDiscord(CompletionMessage(content),
                                              DefaultMaxLen), ok)
           ELSE FinishCompletion(r)
    /\ UNCHANGED <<config, outside, timer, intervals, captures, captured>>

\* A chunk's send has resolved: the next chunk, or the end of the loop.
ResumeChunkSend(r, ok) ==
    /\ EventLoopIdle
    /\ runs[r].pc = "awaitChunkSend"
    /\ SendChunks(r, runs[r].chunks, ok)
    /\ UNCHANGED <<config, outside, timer, intervals, captures, captured>>

\* A hook given to the poller rejects: pollAgent is left at that await.
HookThrows(r) ==
    /\ EventLoopIdle
    /\ runs[r].pc \in {"awaitStoppedHook", "awaitCompleteHook"}
    /\ Caught(r)
    /\ UNCHANGED <<config, outside, states, timer, intervals, captures, captured>>

\* One step of a tick in flight; outcomes are the fates a send can meet.
TickStepWith(r, outcomes) ==
    \/ PollAllDone(r)
    \/ PollAllSkip(r)
    \/ PollAgentNoChannel(r)
    \/ PollAgentOffline(r)
    \/ \E raw \in RawCaptures, ok \in outcomes : PollAgentCaptured(r, raw, ok)
    \/ \E ok \in outcomes : ResumeStoppedHook(r, ok)
    \/ ResumeEndedSend(r)
    \/ ResumeWorkingSend(r)
    \/ \E ok \in outcomes : ResumeCompleteHook(r, ok)
    \/ \E ok \in outcomes : ResumeChunkSend(r, ok)

\* Every send is delivered and the hooks are those wired by AgentBridge.
TickStep(r) == TickStepWith(r, {TRUE})

Next ==
    \/ \E r \in 1..MaxInflight : Start(r)
    \/ \E r \in 1..MaxInflight : TimerFire(r)
    \/ Stop
    \/ \E r \in 1..MaxInflight : TickStep(r)

Spec == Init /\ [][Next]_vars

NextOverlap ==
    \/ \E r \in 1..MaxInflight : StartOverlap(r)
    \/ \E r \in 1..MaxInflight : TimerFireOverlap(r)
    \/ Stop
    \/ \E r \in 1..MaxInflight : TickStep(r)

SpecOverlap == Init /\ [][NextOverlap]_vars

\* The poller, started and left running, with a chat client whose sends can
\* fail and hooks that can reject.  Ticks do not overlap, so the first run
\* record serves for every tick.
NextFaulty ==
    \/ StartWithin(1, MaxCapturesFaulty)
    \/ TimerFireWithin(1, MaxCapturesFaulty)
    \/ TickStepWith(1, BOOLEAN)
    \/ HookThrows(1)

SpecFaulty == Init /\ [][NextFaulty]_vars

\* Mutant: start() does not look at the timer.
AlreadyRunning_Never == FALSE

\* if (this.timer) return;
AlreadyRunning == timer

\* start(), called whether or not the poller is running; the call and what
\* it found are recorded.
StartCalled(r, limit) ==
    /\ EventLoopIdle
    /\ call' = [fn |-> "start", running |-> timer]
    /\ UNCHANGED <<pushed, submit, route>>
    /\ IF AlreadyRunning
       THEN UNCHANGED pollerVars
       ELSE /\ NoTickInFlight
            /\ Entered(r, limit)
            /\ timer' = TRUE
            /\ intervals' = intervals + 1

NextRestart ==
    \/ \E r \in 1..MaxInflight : StartCalled(r, MaxCapturesRestart)
    \/ \E r \in 1..MaxInflight : TimerFireWithin(r, MaxCapturesRestart)
    \/ Stop
    \/ \E r \in 1..MaxInflight : TickStep(r)

\* As Spec, with start() also called while the poller is running.
SpecRestart == Init /\ [][NextRestart]_vars

NextNames ==
    \/ \E r \in 1..MaxInflight : StartWithin(r, MaxCapturesNames)
    \/ \E r \in 1..MaxInflight : TimerFireWithin(r, MaxCapturesNames)
    \/ Stop
    \/ \E r \in 1..MaxInflight : TickStep(r)

InitNames == \E nm \in Namings, cfg \in Settings : InitNamed(nm, cfg, NoCall)

\* As Spec, for state files whose project names and agent types may contain
\* the separator of the poll key.
SpecNames == InitNames /\ [][NextNames]_vars

\* ------------------------------------------- index.ts: the event endpoint

\* event.type of a posted payload: the two types acted on, and any other.
EventTypes == {"session.error", "session.idle", "other"}

\* event.text of a posted payload: absent, blank, or a text.
EventTexts == {<<>>, <<SP>>, <<"x">>}

\* getEventText: the text unless it is blank, else undefined.
getEventText(text) == IF trim(text) # <<>> THEN text ELSE Null

\* The notice of a session error, written in ASCII, and its default text.
SessionErrorPrefix == <<"session error: ">>
UnknownError == <<"unknown error">>

\* fence, line end, text.trim(), line end, fence
IdleMessage(text) == Fence \o <<NL>> \o trim(text) \o <<NL>> \o Fence

NumPushed == Len(pushed[TargetOrder[1]]) + Len(pushed[TargetOrder[2]])

\* What handleOpencodeEvent sends for an event of a target with a channel.
EventMessages(eventType, text) ==
    IF eventType = "session.error"
    THEN << SessionErrorPrefix \o (IF text # Null THEN text ELSE UnknownError) >>
    ELSE IF eventType = "session.idle" /\ text # Null
         THEN splitForDiscord(IdleMessage(text), DefaultMaxLen)
         ELSE <<>>

\* handleOpencodeEvent for a payload that names the project and agent of t.
\* The project is looked up by name and the channel by the agent type of the
\* payload; project.eventHooks and project.agents are not consulted.  No
\* Discord message is pending, so markAgentMessageCompleted and
\* markAgentMessageError return at once; an event that sends nothing leaves
\* the state as it is.
HandleOpencodeEvent(t, eventType, payloadText) ==
    /\ EventLoopIdle
    /\ NumPushed < MaxPushes
    /\ discordChannels[t] # Null
    /\ LET msgs == EventMessages(eventType, getEventText(payloadText))
       IN  /\ msgs # <<>>
           /\ pushed' = [pushed EXCEPT ![t] =
                             @ \o [i \in 1..Len(msgs) |-> SendEvent(msgs[i])]]
    /\ UNCHANGED <<pollerVars, call, submit, route>>

\* The poller together with the event endpoint of the bridge.
NextPush ==
    \/ \E r \in 1..MaxInflight : StartWithin(r, MaxCapturesPush)
    \/ \E r \in 1..MaxInflight : TimerFireWithin(r, MaxCapturesPush)
    \/ Stop
    \/ \E r \in 1..MaxInflight : TickStep(r)
    \/ \E t \in Targets, eventType \in EventTypes, text \in EventTexts :
          HandleOpencodeEvent(t, eventType, text)

SpecPush == Init /\ [][NextPush]_vars

\* ---------------------------------------------------- codex-submitter.ts

\* The marker U+203A that Codex puts before an echoed prompt, one character.
MARK == "MARK"

\* slice(0, 32) in promptPrefix
PrefixLen == 32

\* The default of AGENT_DISCORD_SUBMIT_CHECK_LINES and the minLines argument.
CheckLines == 120
MinLines == 20

\* prompt.trimStart().startsWith('/')
isSlashCommand(prompt) ==
    LET p == trimStart(prompt) IN p # <<>> /\ p[1] = "/"

\* replace(/\s+/g, ' ')
RECURSIVE CollapseSpaces(_)
CollapseSpaces(s) ==
    IF s = <<>> THEN <<>>
    ELSE IF IsSpace(s[1]) THEN <<SP>> \o CollapseSpaces(trimStart(s))
    ELSE <<s[1]>> \o CollapseSpaces(Tail(s))

promptPrefix(prompt) ==
    LET c == CollapseSpaces(trim(prompt))
    IN  SubSeq(c, 1, IF Len(c) < PrefixLen THEN Len(c) ELSE PrefixLen)

\* cleanCapture(capture).split('\n').slice(-Math.max(minLines, configured))
tailLines(capture, minLines) ==
    LET lines == SplitLines(cleanCapture(capture))
        n == IF minLines > CheckLines THEN minLines ELSE CheckLines
    IN  SubSeq(lines, IF Len(lines) > n THEN Len(lines) - n + 1 ELSE 1, Len(lines))

\* String.prototype.includes
Includes(line, needle) ==
    \E i \in 1..(Len(line) - Len(needle) + 1) :
        SubSeq(line, i, i + Len(needle) - 1) = needle

\* Mutant: the echo marker is not required.
captureShowsSubmittedPrompt_NoMarker(capture, prompt) ==
    LET prefix == promptPrefix(prompt)
        tail == tailLines(capture, MinLines)
    IN  \E k \in 1..Len(tail) : Includes(trimStart(tail[k]), prefix)

captureShowsSubmittedPrompt(capture, prompt) ==
    LET prefix == promptPrefix(prompt)
        tail == tailLines(capture, MinLines)
    IN  \E k \in 1..Len(tail) :
            LET l == trimStart(tail[k])
            IN  l # <<>> /\ l[1] = MARK /\ Includes(l, prefix)

captureContainsNeedle(capture, prompt) ==
    LET needle == promptPrefix(prompt)
        tail == tailLines(capture, MinLines)
    IN  /\ needle # <<>>
        /\ \E k \in 1..Len(tail) : Includes(tail[k], needle)

\* The acceptance check after the first Enter (lines 459-468).
FirstAccepts(isSlash, typedCapture, after, trimmed) ==
    IF isSlash
    THEN LET typedHad == IF typedCapture # <<>>
                         THEN captureContainsNeedle(typedCapture, trimmed)
                         ELSE FALSE
             afterHas == captureContainsNeedle(after, trimmed)
         IN  (typedHad /\ ~afterHas) \/ ~afterHas
    ELSE captureShowsSubmittedPrompt(after, trimmed)

\* The acceptance check after a retried Enter (lines 476-481).
RetryAccepts(isSlash, after, trimmed) ==
    IF isSlash
    THEN ~captureContainsNeedle(after, trimmed)
    ELSE captureShowsSubmittedPrompt(after, trimmed)

\* Mutant: the retry loop runs once more than configured.
RetryLimit_OneMore(retries) == (IF retries > 0 THEN retries ELSE 0) + 1

\* Math.max(0, retries)
RetryLimit(retries) == IF retries > 0 THEN retries ELSE 0

\* Mutant: a retry types the prompt again before pressing Enter.
RetryKeys_Retype == <<"type", "enter">>

\* The keys of a retry: sendEnterToWindow only (line 472).
RetryKeys == <<"enter">>

\* A prompt one character longer than the prefix that is searched for.
LongPrompt == [k \in 1..(PrefixLen + 1) |-> "a"]

\* The prompts handed to submit(): plain, a slash command with a space after
\* it, a slash command with two spaces before its argument, a long prompt.
Prompts ==
    { <<"h", "i">>, <<"/", "h", SP>>, <<"/", "h", SP, SP, "x">>, LongPrompt }

\* AGENT_DISCORD_SUBMIT_RETRIES as getEnvInt returns it.
RetryCounts == (-1)..MaxRetries

\* What capturePaneFromWindow may return of the codex window: an empty pane,
\* the echoed prompt, the echoed prompt indented, the typed text still in the
\* input box, either typed slash command, the echo of the long prompt cut
\* after PrefixLen characters.
PaneCaptures ==
    { <<>>,
      <<MARK, SP, "h", "i">>,
      <<SP, MARK, SP, "h", "i">>,
      <<"h", "i", NL>>,
      <<"/", "h">>,
      <<"/", "h", SP, SP, "x">>,
      <<MARK, SP>> \o SubSeq(LongPrompt, 1, PrefixLen) }

\* submit() is left by an exception of the tmux layer.
SubmitThrows == [submit EXCEPT !.pc = "done", !.result = "threw"]

\* submit(tmuxSession, prompt) up to its first await: the prompt is typed.
Typing(prompt, retries, typeOk) ==
    /\ submit.pc = "idle"
    /\ LET typed == [submit EXCEPT !.prompt = trimEnd(prompt),
                                   !.retries = retries,
                                   !.keys = <<"type">>]
       IN  submit' = IF typeOk
                     THEN [typed EXCEPT !.pc = "typed"]
                     ELSE [typed EXCEPT !.pc = "done", !.result = "threw"]

\* submit() called on its own.
SubmitCall(prompt, retries, typeOk) ==
    /\ Typing(prompt, retries, typeOk)
    /\ UNCHANGED <<pollerVars, call, pushed, route>>

\* After the submit delay: the baseline capture of a slash command, then the
\* first Enter.
SubmitEnter(raw, enterOk) ==
    /\ submit.pc = "typed"
    /\ raw \in (IF isSlashCommand(submit.prompt)
                THEN PaneCaptures \cup {Fail} ELSE {<<>>})
    /\ submit' =
          IF raw = Fail THEN SubmitThrows
          ELSE LET entered == [submit EXCEPT !.typedCapture = raw,
                                             !.keys = Append(@, "enter")]
               IN  IF enterOk
                   THEN [entered EXCEPT !.pc = "entered"]
                   ELSE [entered EXCEPT !.pc = "done", !.result = "threw"]
    /\ UNCHANGED <<pollerVars, call, pushed, route>>

\* Mutant: an accepted check does not return, the loop goes on.
AfterCheck_NoReturn(accepted, enterOk) ==
    LET checked == [submit EXCEPT !.checks = Append(@, accepted)]
    IN  IF submit.i < RetryLimit(submit.retries)
        THEN LET again == [checked EXCEPT !.keys = @ \o RetryKeys,
                                          !.i = @ + 1]
             IN  IF enterOk
                 THEN again
                 ELSE [again EXCEPT !.pc = "done", !.result = "threw"]
        ELSE [checked EXCEPT !.pc = "done",
                             !.result = IF accepted THEN "true" ELSE "false"]

\* The outcome of an acceptance check: return true, or press Enter again if
\* the loop has a round left, or return false.
AfterCheck(accepted, enterOk) ==
    LET checked == [submit EXCEPT !.checks = Append(@, accepted)]
    IN  IF accepted
        THEN [checked EXCEPT !.pc = "done", !.result = "true"]
        ELSE IF submit.i < RetryLimit(submit.retries)
             THEN LET again == [checked EXCEPT !.keys = @ \o RetryKeys,
                                               !.i = @ + 1]
                  IN  IF enterOk
                      THEN again
                      ELSE [again EXCEPT !.pc = "done", !.result = "threw"]
             ELSE [checked EXCEPT !.pc = "done", !.result = "false"]

\* After the check delay: the capture and the first acceptance check.
SubmitFirstCheck(raw, enterOk) ==
    /\ submit.pc = "entered"
    /\ submit.checks = <<>>
    /\ submit' =
          IF raw = Fail THEN SubmitThrows
          ELSE [AfterCheck(FirstAccepts(isSlashCommand(submit.prompt),
                                        submit.typedCapture, raw, submit.prompt),
                           enterOk) EXCEPT !.after = raw]
    /\ UNCHANGED <<pollerVars, call, pushed, route>>

\* After the retry delay: the capture and the acceptance check of a retry.
SubmitRetryCheck(raw, enterOk) ==
    /\ submit.pc = "entered"
    /\ submit.checks # <<>>
    /\ submit' =
          IF raw = Fail THEN SubmitThrows
          ELSE [AfterCheck(RetryAccepts(isSlashCommand(submit.prompt), raw,
                                        submit.prompt),
                           enterOk) EXCEPT !.after = raw]
    /\ UNCHANGED <<pollerVars, call, pushed, route>>

NextSubmit ==
    \/ \E prompt \in Prompts, retries \in RetryCounts, typeOk \in BOOLEAN :
          SubmitCall(prompt, retries, typeOk)
    \/ \E raw \in PaneCaptures \cup {Fail}, enterOk \in BOOLEAN :
          SubmitEnter(raw, enterOk)
    \/ \E raw \in PaneCaptures \cup {Fail}, enterOk \in BOOLEAN :
          SubmitFirstCheck(raw, enterOk)
    \/ \E raw \in PaneCaptures \cup {Fail}, enterOk \in BOOLEAN :
          SubmitRetryCheck(raw, enterOk)

\* One execution of submit().
SpecSubmit == Init /\ [][NextSubmit]_vars

\* ------------------------------------------- index.ts: Discord -> agent

\* content.length > 10000
MaxContentLen == 10000

NUL == "NUL"

\* Mutant: the null bytes are left in the text.
sanitizeInput_KeepsNul(content) ==
    IF content = <<>> \/ trim(content) = <<>> THEN Null
    ELSE IF Len(content) > MaxContentLen THEN Null
    ELSE content

\* AgentBridge.sanitizeInput
sanitizeInput(content) ==
    IF content = <<>> \/ trim(content) = <<>> THEN Null
    ELSE IF Len(content) > MaxContentLen THEN Null
    ELSE SelectSeq(content, LAMBDA c : c # NUL)

\* A text of the greatest length let through, and one a character longer.
Longest == [k \in 1..MaxContentLen |-> "a"]
TooLong == [k \in 1..(MaxContentLen + 1) |-> "a"]

\* The texts of the chat messages: empty, blank, plain, a slash command, a
\* null byte alone, a null byte inside a text, a text that is too long.
Contents ==
    { <<>>, <<SP>>, <<"h", "i">>, <<"/", "h", SP>>, <<NUL>>, <<"h", NUL, "i">>,
      TooLong }

\* The messages that arrive: each text in the channel of each agent type, and
\* the longest text in the channel of an agent that gets it by send-keys.
Arrivals == (AgentTypes \X Contents) \cup { <<"claude", Longest>> }

\* The message the handler is working on.
Msg == route.n

\* The handler has returned; its locals are gone.
Handled(r) ==
    [r EXCEPT !.pc = "idle", !.agentType = NotRouting.agentType,
              !.content = <<>>, !.marked = FALSE, !.notice = "none"]

\* this.stateManager.updateLastActive(projectName), the last statement.
LastActiveUpdated(r) == Handled([r EXCEPT !.lastActive = @ + 1])

\* markAgentMessageError up to its await: the pending message of the agent,
\* if there is one, gets the failure reaction; then the notice is due.
MarkError(r, notice) ==
    LET m == r.pending[r.agentType]
    IN  [r EXCEPT !.pc = "marking",
                  !.notice = notice,
                  !.marked = (m # 0),
                  !.reaction = IF m # 0 THEN [@ EXCEPT ![m] = "failed"] ELSE @,
                  !.marks = IF m # 0 THEN [@ EXCEPT ![m] = Append(@, "failed")]
                            ELSE @]

\* The callback of discord.onMessage up to the call that sends to tmux, for
\* one of the first limit messages.
OnMessageWithin(limit, agentType, content, hasProject, hasId) ==
    /\ route.pc = "idle"
    /\ route.n < limit
    /\ LET m == route.n + 1
           got == [route EXCEPT !.n = m,
                                !.received = Append(@, content),
                                !.forwarded = Append(@, Null),
                                !.reaction = Append(@, "none"),
                                !.marks = Append(@, <<>>),
                                !.notices = Append(@, <<>>),
                                !.calls = Append(@, 0),
                                !.typed = Append(@, 0),
                                !.results = Append(@, "none")]
           sanitized == sanitizeInput(content)
       IN  route' =
             IF ~hasProject
             THEN [got EXCEPT !.notices[m] = <<"notfound">>]
             ELSE IF sanitized = Null \/ sanitized = <<>>
             THEN [got EXCEPT !.notices[m] = <<"invalid">>]
             ELSE [got EXCEPT
                     !.pc = "reacted",
                     !.agentType = agentType,
                     !.content = sanitized,
                     !.pending = IF hasId THEN [@ EXCEPT ![agentType] = m]
                                 ELSE @,
                     !.reaction = IF hasId THEN [@ EXCEPT ![m] = "waiting"]
                                  ELSE @]
    /\ UNCHANGED <<pollerVars, call, pushed, submit>>

OnMessage(agentType, content, hasProject, hasId) ==
    OnMessageWithin(MaxMessages, agentType, content, hasProject, hasId)

\* agentType === 'codex': submit() is called and types the prompt.
RouteCodex(retries, typeOk) ==
    /\ route.pc = "reacted"
    /\ route.agentType = "codex"
    /\ Typing(route.content, retries, typeOk)
    /\ route' = [route EXCEPT !.pc = "submitting", !.calls[Msg] = @ + 1,
                              !.forwarded[Msg] = route.content]
    /\ UNCHANGED <<pollerVars, call, pushed>>

\* What capturePaneFromWindow returns while a chat message is submitted: an
\* empty pane, the echoed prompt, the typed slash command.
RoutePanes == { <<>>, <<MARK, SP, "h", "i">>, <<"/", "h">> }

\* AGENT_DISCORD_SUBMIT_RETRIES while chat messages are routed.
RouteRetries == {0, 1}

\* submit() goes on while the handler awaits it.
RouteSubmitStep ==
    /\ route.pc = "submitting"
    /\ \E raw \in RoutePanes \cup {Fail}, enterOk \in BOOLEAN :
          \/ SubmitEnter(raw, enterOk)
          \/ SubmitFirstCheck(raw, enterOk)
          \/ SubmitRetryCheck(raw, enterOk)

\* submit() has returned or thrown: true ends the handler, false brings the
\* warning, an exception the error notice of the catch block.
RouteSubmitReturned ==
    /\ route.pc = "submitting"
    /\ submit.pc = "done"
    /\ LET r == [route EXCEPT !.results[Msg] = submit.result,
                              !.typed[Msg] =
                                  Cardinality({k \in 1..Len(submit.keys) :
                                                  submit.keys[k] = "type"})]
       IN  route' = CASE submit.result = "true" -> LastActiveUpdated(r)
                      [] submit.result = "false" -> MarkError(r, "warning")
                      [] OTHER -> MarkError(r, "error")
    /\ submit' = NotSubmitting
    /\ UNCHANGED <<pollerVars, call, pushed>>

\* agentType === 'opencode': submitToOpencode types the prompt.
RouteOpencodeType(typeOk) ==
    /\ route.pc = "reacted"
    /\ route.agentType = "opencode"
    /\ LET r == [route EXCEPT !.typed[Msg] = @ + 1,
                              !.forwarded[Msg] = route.content]
       IN  route' = IF typeOk
                    THEN [r EXCEPT !.pc = "opencodeTyped"]
                    ELSE MarkError([r EXCEPT !.results[Msg] = "threw"], "error")
    /\ UNCHANGED <<pollerVars, call, pushed, submit>>

\* submitToOpencode after its delay: Enter.
RouteOpencodeEnter(enterOk) ==
    /\ route.pc = "opencodeTyped"
    /\ route' = IF enterOk
                THEN LastActiveUpdated([route EXCEPT !.results[Msg] = "sent"])
                ELSE MarkError([route EXCEPT !.results[Msg] = "threw"], "error")
    /\ UNCHANGED <<pollerVars, call, pushed, submit>>

\* Any other agent: this.tmux.sendKeysToWindow.
RouteSendKeys(ok) ==
    /\ route.pc = "reacted"
    /\ route.agentType \notin {"codex", "opencode"}
    /\ LET r == [route EXCEPT !.typed[Msg] = @ + 1,
                              !.forwarded[Msg] = route.content]
       IN  route' = IF ok
                    THEN LastActiveUpdated([r EXCEPT !.results[Msg] = "sent"])
                    ELSE MarkError([r EXCEPT !.results[Msg] = "threw"], "error")
    /\ UNCHANGED <<pollerVars, call, pushed, submit>>

\* markAgentMessageError after its await: the pending entry that it had found
\* is deleted; then the notice is sent and lastActive updated.
RouteNotice ==
    /\ route.pc = "marking"
    /\ route' = LastActiveUpdated(
                    [route EXCEPT
                       !.pending = IF route.marked
                                   THEN [@ EXCEPT ![route.agentType] = 0]
                                   ELSE @,
                       !.notices[route.n] = Append(@, route.notice)])
    /\ UNCHANGED <<pollerVars, call, pushed, submit>>

\* The hooks the poller was given in the constructor: onAgentComplete calls
\* markAgentMessageCompleted, onAgentStopped calls markAgentMessageError.
\* Up to the await: the pending message of the agent is looked up and the
\* replacement of its reaction is begun; with no pending message the
\* function returns, which changes nothing.
PollerHook(agentType, outcome) ==
    /\ route.hook = 0
    /\ route.pending[agentType] # 0
    /\ LET m == route.pending[agentType]
       IN  route' = [route EXCEPT !.hook = m, !.hookAgent = agentType,
                                  !.reaction[m] = outcome,
                                  !.marks[m] = Append(@, outcome)]
    /\ UNCHANGED <<pollerVars, call, pushed, submit>>

\* The replacement has settled: this.pendingMessageByAgent.delete(key).
PollerHookReturns ==
    /\ route.hook # 0
    /\ route' = [route EXCEPT !.hook = 0, !.hookAgent = NotRouting.hookAgent,
                              !.pending[route.hookAgent] = 0]
    /\ UNCHANGED <<pollerVars, call, pushed, submit>>

NextRoute ==
    \/ \E a \in Arrivals, hasProject \in BOOLEAN, hasId \in BOOLEAN :
          OnMessage(a[1], a[2], hasProject, hasId)
    \/ \E retries \in RouteRetries, typeOk \in BOOLEAN :
          RouteCodex(retries, typeOk)
    \/ RouteSubmitStep
    \/ RouteSubmitReturned
    \/ \E typeOk \in BOOLEAN : RouteOpencodeType(typeOk)
    \/ \E enterOk \in BOOLEAN : RouteOpencodeEnter(enterOk)
    \/ \E ok \in BOOLEAN : RouteSendKeys(ok)
    \/ RouteNotice
    \/ \E agentType \in AgentTypes, outcome \in {"completed", "failed"} :
          PollerHook(agentType, outcome)
    \/ PollerHookReturns

\* The bridge started, no message received yet.
InitRoute == InitWith(AllPolled, NoCall)

\* Chat messages handled one after another, with the poller's hooks.
SpecRoute == InitRoute /\ [][NextRoute]_vars

\* The agent types of the messages under SpecPending: one that is submitted
\* by the codex submitter and one that gets its text by send-keys.
PendingAgents == {"codex", "claude"}

NextPending ==
    \/ \E agentType \in PendingAgents, hasId \in BOOLEAN :
          OnMessageWithin(MaxPendingMessages, agentType, <<"h", "i">>, TRUE,
                          hasId)
    \/ \E typeOk \in BOOLEAN : RouteCodex(0, typeOk)
    \/ RouteSubmitStep
    \/ RouteSubmitReturned
    \/ \E ok \in BOOLEAN : RouteSendKeys(ok)
    \/ RouteNotice
    \/ \E agentType \in PendingAgents, outcome \in {"completed", "failed"} :
          PollerHook(agentType, outcome)
    \/ PollerHookReturns

\* Several chat messages with the text "hi", one after another, with the
\* poller's hooks: what becomes of the reactions of the pending messages.
SpecPending == InitRoute /\ [][NextPending]_vars

\* ------------------------------------- calls of detector.ts and parser.ts

\* What a call of a pure function leaves alone.
bridge == <<pollerVars, pushed, submit, route>>

\* The captures handed to detectState.
DetectTexts == { <<>>, <<"x">>, <<"y">>, <<"x", NL>> }

\* The calls detectState(current, previous, stableCount), not yet returned.
DetectCalls ==
    [fn : {"detectState"},
     current : DetectTexts \cup {Null},
     previous : DetectTexts \cup {Null},
     stableCount : 0..MaxStable,
     result : {"none"}]

InitDetect == \E c \in DetectCalls : InitWith(AllPolled, c)

\* detectState returns.
DetectStateReturns ==
    /\ call.fn = "detectState"
    /\ call.result = "none"
    /\ call' = [call EXCEPT
                   !.result = detectState(call.current, call.previous,
                                          call.stableCount)]
    /\ UNCHANGED bridge

\* One call of detectState, for every triple of arguments.
SpecDetect == InitDetect /\ [][DetectStateReturns]_vars

\* The result of a call that has not returned yet.
NotReturned == <<"<not returned>">>

\* The texts of at most n characters over the alphabet.
TextsOver(alphabet, n) == UNION { [1..k -> alphabet] : k \in 0..n }

\* The raw captures handed to cleanCapture: escape sequences, their pieces,
\* a visible character and line ends.
RawChars == {ESC, "[", "m", NL}

CleanCalls ==
    [fn : {"cleanCapture"}, text : TextsOver(RawChars, MaxRawLen),
     once : {NotReturned}, twice : {NotReturned}]

InitClean == \E c \in CleanCalls : InitWith(AllPolled, c)

\* cleanCapture(text) returns.
CleanCaptureReturns ==
    /\ call.fn = "cleanCapture"
    /\ call.once = NotReturned
    /\ call' = [call EXCEPT !.once = cleanCapture(call.text)]
    /\ UNCHANGED bridge

\* cleanCapture, called on its own result, returns.
CleanCaptureAgainReturns ==
    /\ call.fn = "cleanCapture"
    /\ call.once # NotReturned
    /\ call.twice = NotReturned
    /\ call' = [call EXCEPT !.twice = cleanCapture(call.once)]
    /\ UNCHANGED bridge

NextClean == CleanCaptureReturns \/ CleanCaptureAgainReturns

\* cleanCapture applied to a raw text and then to its own result.
SpecClean == InitClean /\ [][NextClean]_vars

\* The calls splitForDiscord(text, maxLen): texts of lines of the letter a,
\* empty lines included.
SplitCalls ==
    [fn : {"splitForDiscord"}, text : TextsOver({"a", NL}, MaxSplitLen),
     maxLen : 0..MaxLimit, returned : {FALSE}, chunks : {<<>>}]

InitSplit == \E c \in SplitCalls : InitWith(AllPolled, c)

\* splitForDiscord returns.
SplitForDiscordReturns ==
    /\ call.fn = "splitForDiscord"
    /\ ~call.returned
    /\ call' = [call EXCEPT !.returned = TRUE,
                            !.chunks = splitForDiscord(call.text, call.maxLen)]
    /\ UNCHANGED bridge

\* One call of splitForDiscord, for every text and limit.
SpecSplit == InitSplit /\ [][SplitForDiscordReturns]_vars

\* ---------------------------------------------------------------- claims

CurrentState(t) == GetState(PollKey(t))

\* No pollAgent execution for t is suspended at an await.
Quiet(t) ==
    \A r \in 1..MaxInflight :
        runs[r].pc \in {"idle", "loop"} \/ TargetOf(r) # t

IsSendEvent(ev) == ev[1] = "send"

\* The texts sent, in order, among a sequence of events.
Messages(evs) ==
    LET sel == SelectSeq(evs, IsSendEvent)
    IN  [i \in 1..Len(sel) |-> sel[i][2]]

Count(seq, x) == Cardinality({i \in 1..Len(seq) : seq[i] = x})

IsCompletionNotice(msg) == msg \notin {WorkingNotice, EndedNotice}

NumCompletionNotices(seq) ==
    Cardinality({i \in 1..Len(seq) : IsCompletionNotice(seq[i])})

ResolutionHooks == {HookEvent("onAgentComplete"), HookEvent("onAgentStopped")}

\* The short notice that ARCHITECTURE.md section 4.3 and the poller's test
\* "sends simple completion when content matches lastReportedCapture" expect.
DoneNotice == <<"done (no new output)">>

X == <<"x">>

ChangingThenStable(cs) ==
    /\ Len(cs) >= 2
    /\ \A i \in 1..Len(cs) : cs[i] # Fail
    /\ \E k \in 1..(Len(cs) - 1) :
          /\ \A i \in 2..k : cs[i] # cs[i - 1]
          /\ \A i \in (k + 1)..Len(cs) : cs[i] = cs[k]

\* C2: changing content followed by N >= 1 unchanged ticks on a fresh target
\* yields exactly one "working" and exactly one "completed" notification,
\* whatever the text.
C2_OneWorkingOneCompleted ==
    \A t \in Targets :
        (Quiet(t) /\ ChangingThenStable(captured[t]))
        => /\ Count(Messages(log[t]), WorkingNotice) = 1
           /\ NumCompletionNotices(Messages(log[t])) = 1

\* A tick's events that belong to a completion: the hook or a completion text.
HasCompletionEvent(evs) ==
    \E i \in 1..Len(evs) :
        \/ evs[i] = HookEvent("onAgentComplete")
        \/ (IsSendEvent(evs[i]) /\ IsCompletionNotice(evs[i][2]))

\* C3: a completion (hook or message) is emitted only by a tick that took
\* stableCount from 0 to 1 while a working notice was outstanding; a stable
\* tick that leaves stableCount >= 2 sends nothing and calls no hook.
C3_CompletionOnlyOnFirstStableTick ==
    /\ \A t \in Targets :
          /\ HasCompletionEvent(lastPoll[t].emitted)
                => /\ lastPoll[t].cls = "stopped"
                   /\ lastPoll[t].before.stableCount = 0
                   /\ lastPoll[t].before.notifiedWorking
          /\ (Quiet(t) /\ lastPoll[t].cls = "stopped"
                /\ CurrentState(t).stableCount >= 2)
                => lastPoll[t].emitted = <<>>
    /\ \A r \in 1..MaxInflight :
          runs[r].pc \in {"awaitCompleteHook", "awaitChunkSend"}
          => /\ runs[r].before.stableCount = 0
             /\ runs[r].before.notifiedWorking
             /\ CurrentState(TargetOf(r)).stableCount = 1

\* After a completion was sent, a further stable tick has passed in silence.
C3_Witness ==
    \E t \in Targets :
        /\ Quiet(t)
        /\ lastPoll[t].cls = "stopped"
        /\ CurrentState(t).stableCount >= 2
        /\ lastPoll[t].emitted = <<>>
        /\ NumCompletionNotices(Messages(log[t])) = 1

\* C4: on the first stable tick after an outstanding working notice, an empty
\* or already reported trimmed capture makes the tick send exactly the short
\* "done (no new output)" notice.
C4_DoneNoticeWhenNoNewOutput ==
    \A t \in Targets :
        (/\ lastPoll[t].cls = "stopped"
         /\ lastPoll[t].before.notifiedWorking
         /\ lastPoll[t].before.stableCount = 0
         /\ \/ trim(lastPoll[t].capture) = <<>>
            \/ trim(lastPoll[t].capture) = lastPoll[t].before.lastReportedCapture)
        => Messages(lastPoll[t].emitted) = <<DoneNotice>>

InPollAgent(r) == runs[r].pc \notin {"idle", "loop"}

\* C6: no two ticks are inside pollAgent for the same target at once.
C6_TicksSerializedPerTarget ==
    \A r1, r2 \in 1..MaxInflight :
        (r1 # r2 /\ InPollAgent(r1) /\ InPollAgent(r2))
        => TargetOf(r1) # TargetOf(r2)

\* C7: a failed capture with no working notice outstanding sends nothing and
\* calls no hook.
C7_SilentOfflineWhenNotNotified ==
    /\ \A t \in Targets :
          (lastPoll[t].cls = "offline" /\ ~lastPoll[t].before.notifiedWorking)
          => lastPoll[t].emitted = <<>>
    /\ \A r \in 1..MaxInflight :
          runs[r].pc \in {"awaitStoppedHook", "awaitEndedSend"}
          => runs[r].before.notifiedWorking

\* The first capture ever of a target has failed.
C7_Witness ==
    \E t \in Targets :
        /\ lastPoll[t].cls = "offline"
        /\ captured[t] = <<Fail>>
        /\ log[t] = <<>>

C9_OfflineFrame ==
    /\ \A t \in Targets :
          (Quiet(t) /\ lastPoll[t].cls = "offline")
          => /\ CurrentState(t).previousCapture = lastPoll[t].before.previousCapture
             /\ CurrentState(t).stableCount = lastPoll[t].before.stableCount
             /\ CurrentState(t).lastReportedCapture
                   = lastPoll[t].before.lastReportedCapture
    /\ \A r \in 1..MaxInflight :
          runs[r].pc \in {"awaitStoppedHook", "awaitEndedSend"}
          => /\ CurrentState(TargetOf(r)).previousCapture
                   = runs[r].before.previousCapture
             /\ CurrentState(TargetOf(r)).stableCount = runs[r].before.stableCount
             /\ CurrentState(TargetOf(r)).lastReportedCapture
                   = runs[r].before.lastReportedCapture

\* A session that ended during an episode following a reported completion.
C9_Witness ==
    \E t \in Targets :
        /\ Quiet(t)
        /\ lastPoll[t].cls = "offline"
        /\ lastPoll[t].before.notifiedWorking
        /\ lastPoll[t].before.lastReportedCapture # Null
        /\ CurrentState(t).previousCapture # Null

Y == <<"y">>

LastOf(seq) == seq[Len(seq)]

HasFailedSend(evs) == \E i \in 1..Len(evs) : IsFailedSend(evs[i])

IsSendOf(ev, msg) == IsSendEvent(ev) /\ ev[2] = msg

\* C12: a tick one of whose sends failed leaves the poll state as the code
\* sets it after a delivered send (working: notifiedWorking set; completion:
\* lastReportedCapture recorded and the flag cleared; session ended: the flag
\* cleared), and a notification whose send failed is not sent again before a
\* new episode calls for it.
C12_FailedSendSwallowed ==
    \A t \in Targets :
        /\ (Quiet(t) /\ HasFailedSend(lastPoll[t].emitted))
           => LET st == CurrentState(t)
                  b == lastPoll[t].before
                  cap == lastPoll[t].capture
              IN  /\ lastPoll[t].cls = "working"
                     => st = [b EXCEPT !.stableCount = 0, !.previousCapture = cap,
                                       !.notifiedWorking = TRUE]
                  /\ lastPoll[t].cls = "stopped"
                     => st = [b EXCEPT !.stableCount = @ + 1,
                                       !.previousCapture = cap,
                                       !.lastReportedCapture = cap,
                                       !.notifiedWorking = FALSE]
                  /\ lastPoll[t].cls = "offline"
                     => st = [b EXCEPT !.notifiedWorking = FALSE]
        /\ \A i, j \in 1..Len(log[t]) :
              (i < j /\ IsFailedSend(log[t][i]) /\ IsSendOf(log[t][j], log[t][i][2]))
              => \E k \in (i + 1)..(j - 1) :
                    IF log[t][i][2] = WorkingNotice
                    THEN log[t][k] \in ResolutionHooks
                    ELSE IsSendOf(log[t][k], WorkingNotice)

\* The first "working" send of a target failed, and a later working tick
\* found the flag set and sent nothing.
C12_Witness ==
    \E t \in Targets :
        /\ Quiet(t)
        /\ log[t] = <<FailedSend(WorkingNotice)>>
        /\ lastPoll[t].cls = "working"
        /\ lastPoll[t].before.notifiedWorking
        /\ lastPoll[t].emitted = <<>>

\* C13: every tick polls every eligible target with a channel, whatever
\* happened to the targets before it: once a tick is over each such target
\* has been captured once per tick begun, and a tick that has reached a
\* position of its loop has captured all those before that position.
C13_EveryTargetPolled ==
    /\ NoTickInFlight
       => \A t \in Targets :
             Pollable(t) => Len(captured[t]) * NumPollable = captures
    /\ \A r \in 1..MaxInflight :
          runs[r].pc = "loop"
          => \A j \in 1..Len(TargetOrder) :
                (j < runs[r].idx /\ Pollable(TargetOrder[j]))
                => Len(captured[TargetOrder[j]]) * NumPollable = captures

\* The capture of the first target failed and its onAgentStopped hook threw;
\* the second target was polled all the same and the tick is over.
C13_Witness ==
    /\ NoTickInFlight
    /\ lastPoll[TargetOrder[1]].emitted # <<>>
    /\ LastOf(lastPoll[TargetOrder[1]].emitted) = ErrorEvent
    /\ LastOf(captured[TargetOrder[1]]) = Fail
    /\ Pollable(TargetOrder[2])
    /\ Len(captured[TargetOrder[2]]) = Len(captured[TargetOrder[1]])

\* The pollAll invocations entered by a step.
TicksBegun == {r \in 1..MaxInflight : runs[r].pc = "idle" /\ runs'[r].pc = "loop"}

\* C14: while the poller is stopped (stop() has returned and start() has not
\* been called since) no step enters pollAll; the steps of a tick that was in
\* progress when stop() was called are not restrained.
C14_NoTickWhileStopped ==
    [][(~timer /\ ~timer') => TicksBegun = {}]_vars

\* The poller was stopped while a tick was awaiting a send or a hook.
C14_Witness ==
    /\ ~timer
    /\ intervals = 0
    /\ \E r \in 1..MaxInflight : InPollAgent(r)

\* C15: the step of start() enters pollAll itself and installs the one
\* interval timer; every other entry into pollAll is an expiry of that timer,
\* and each entry is one invocation that walks through all the targets.
C15_FirstTickAtStart ==
    [][/\ (~timer /\ timer')
          => /\ Cardinality(TicksBegun) = 1
             /\ intervals' = 1
       /\ TicksBegun # {}
          => /\ Cardinality(TicksBegun) = 1
             /\ timer' /\ intervals' = 1
             /\ \A r \in TicksBegun : runs'[r].idx = 1]_vars

\* start() has just returned: the first pollAll is at the head of its loop,
\* nothing has been captured yet and the interval timer is installed.
C15_Witness ==
    /\ timer
    /\ intervals = 1
    /\ runs[1].pc = "loop" /\ runs[1].idx = 1
    /\ captures = NumPollable
    /\ \A t \in Targets : captured[t] = <<>>

\* The agent is disabled, or flagged as event-push, or has no channel id.
Skipped(t) == ~agents[t] \/ eventHooks[t] \/ discordChannels[t] = Null

\* C16: for a target that is disabled, flagged as event-push or without a
\* channel, no capture is ever attempted, nothing is sent, no hook is called,
\* no error is caught, and no pollAgent execution suspends on it.
C16_SkippedTargetUntouched ==
    \A t \in Targets :
        Skipped(t)
        => /\ captured[t] = <<>>
           /\ log[t] = <<>>
           /\ lastPoll[t] = NoPoll
           /\ Quiet(t)

\* Two ticks have run over a skipped target while the other target was
\* polled twice.
C16_Witness ==
    /\ NoTickInFlight
    /\ \E t \in Targets : Skipped(t) /\ eventHooks[t]
    /\ \E t \in Targets : ~Skipped(t) /\ Len(captured[t]) = 2

\* C17: no target is notified both by the poller and by the event endpoint.
C17_PushXorPoll ==
    \A t \in Targets : ~(Messages(log[t]) # <<>> /\ pushed[t] # <<>>)

\* C18: a completion tick whose trimmed capture equals the trimmed text of
\* the capture reported by the preceding completion of the target sends no
\* content message.
C18_SameCompletionSuppressed ==
    \A t \in Targets :
        (/\ lastPoll[t].cls = "stopped"
         /\ lastPoll[t].before.notifiedWorking
         /\ lastPoll[t].before.stableCount = 0
         /\ lastPoll[t].before.lastReportedCapture # Null
         /\ trim(lastPoll[t].capture) = trim(lastPoll[t].before.lastReportedCapture))
        => Messages(lastPoll[t].emitted) = <<>>

\* C19: once submit() has begun, the first key sent is the typed prompt, it
\* is typed once, and every key after it is an Enter.
C19_TypedOnceThenEnters ==
    submit.pc # "idle"
    => /\ submit.keys # <<>>
       /\ submit.keys[1] = "type"
       /\ \A k \in 2..Len(submit.keys) : submit.keys[k] = "enter"

\* An execution that retried twice, the captures never showing the prompt.
C19_Witness ==
    /\ submit.pc = "done"
    /\ submit.keys = <<"type", "enter", "enter", "enter">>
    /\ submit.checks = <<FALSE, FALSE, FALSE>>

ConfiguredRetries == IF submit.retries < 0 THEN 0 ELSE submit.retries

\* Keys sent and checks made so far.
Progress(s) == Len(s.keys) + Len(s.checks)

\* C20: submit() sends at most 1 + N Enter keystrokes and makes at most
\* 1 + N acceptance checks, N being the configured retry count or 0 when that
\* is negative; it has returned false exactly when 1 + N checks were made and
\* none succeeded; and it terminates: it is always at a position from which
\* its code goes on or has ended, and each of its steps either ends it or
\* adds to the bounded number of keys sent and checks made.
C20_BoundedRetries ==
    /\ [](/\ Count(submit.keys, "enter") <= 1 + ConfiguredRetries
          /\ Len(submit.checks) <= 1 + ConfiguredRetries
          /\ submit.result = "false"
             <=> /\ Len(submit.checks) = 1 + ConfiguredRetries
                 /\ \A k \in 1..Len(submit.checks) : ~submit.checks[k]
          /\ submit.pc \in {"idle", "typed", "entered", "done"}
          /\ submit.pc = "done" <=> submit.result # "none")
    /\ [][/\ submit.pc # "done"
          /\ submit'.pc = "done" \/ Progress(submit') > Progress(submit)]_submit

\* submit() has returned false after the first Enter and two retries.
C20_Witness ==
    /\ submit.result = "false"
    /\ submit.retries = 2
    /\ Count(submit.keys, "enter") = 3

\* The number of Enter keys sent so far.
Enters == Count(submit.keys, "enter")

\* C21: submit() stops at the first accepted check: an accepted check is the
\* last one made, with it submit() has returned true, and the number of Enter
\* keys sent is the index of that check, so that an accepted first check
\* leaves one Enter and no retry; and submit() returns true in no other way.
C21_StopsAtFirstAccepted ==
    /\ \A k \in 1..Len(submit.checks) :
          submit.checks[k]
          => /\ k = Len(submit.checks)
             /\ submit.pc = "done"
             /\ submit.result = "true"
             /\ Enters = k
             /\ submit.i = k - 1
    /\ submit.result = "true"
       => submit.checks # <<>> /\ LastOf(submit.checks)

\* The second check was the first accepted one, with retries left.
C21_Witness ==
    /\ submit.result = "true"
    /\ submit.retries = 2
    /\ submit.checks = <<FALSE, TRUE>>
    /\ submit.keys = <<"type", "enter", "enter">>

\* The text that typeKeysToWindow typed is on a line of the capture's tail.
TypedTextInTail(capture, typed) ==
    LET tail == tailLines(capture, MinLines)
    IN  \E k \in 1..Len(tail) : Includes(tail[k], typed)

\* C22: for a slash-command prompt, the latest check was accepted if and only
\* if the typed text is not on any line of the tail of the capture taken
\* after the most recent Enter.
C22_SlashAcceptedIffTypedTextGone ==
    (isSlashCommand(submit.prompt) /\ submit.checks # <<>>)
    => (LastOf(submit.checks) <=> ~TypedTextInTail(submit.after, submit.prompt))

\* The whitespace-collapsed first 32 characters of the prompt.
Needle == promptPrefix(submit.prompt)

\* The lines of the tail of the normalized capture of the latest check.
AfterTail == tailLines(submit.after, MinLines)

\* C23 as stated: for a non-slash prompt the latest check was accepted if and
\* only if a line of the tail begins with the marker and contains the needle.
C23_AcceptedIffLineStartsWithMarker ==
    (~isSlashCommand(submit.prompt) /\ submit.checks # <<>>)
    => (LastOf(submit.checks)
        <=> \E k \in 1..Len(AfterTail) :
               /\ AfterTail[k] # <<>>
               /\ AfterTail[k][1] = MARK
               /\ Includes(AfterTail[k], Needle))

\* C23 amended: for a non-slash prompt the latest check was accepted if and
\* only if a line of the tail has the marker as its first character that is
\* not whitespace and contains the needle; a capture that shows the prompt
\* on lines without the marker is not accepted.
C23_AcceptedIffMarkedLineShowsPrefix ==
    (~isSlashCommand(submit.prompt) /\ submit.checks # <<>>)
    => /\ LastOf(submit.checks)
          <=> \E k \in 1..Len(AfterTail) :
                 \E j \in 1..Len(AfterTail[k]) :
                    /\ AfterTail[k][j] = MARK
                    /\ \A h \in 1..(j - 1) : IsSpace(AfterTail[k][h])
                    /\ Includes(AfterTail[k], Needle)
       /\ (\A k \in 1..Len(AfterTail) : \A j \in 1..Len(AfterTail[k]) :
                AfterTail[k][j] # MARK)
          => ~LastOf(submit.checks)

\* The first check refused, the second accepted the echo of the first
\* PrefixLen characters of the long prompt.
C23_Witness ==
    /\ submit.prompt = LongPrompt
    /\ submit.checks = <<FALSE, TRUE>>
    /\ submit.after = <<MARK, SP>> \o SubSeq(LongPrompt, 1, PrefixLen)

\* The handler of message m has returned.
Returned(m) == m < route.n \/ (m = route.n /\ route.pc = "idle")

\* C24: when submit() has returned false for a message and the handler has
\* returned, the channel got exactly one notice for the message, the warning;
\* the message, when it was pending, carries the failure reaction; and
\* submit() was called once and the prompt typed once for it.
C24_FalseWarnsOnceMarksFailed ==
    \A m \in 1..route.n :
       (route.results[m] = "false" /\ Returned(m))
       => /\ route.notices[m] = <<"warning">>
          /\ route.reaction[m] \in {"none", "failed"}
          /\ route.calls[m] = 1
          /\ route.typed[m] = 1

\* C25: detectState returns for every triple exactly one of the three
\* classifications: offline if and only if current is absent; otherwise
\* working if and only if previous is absent or differs from current;
\* otherwise stopped; and the result is the same for every stableCount.
C25_DetectStateTotalOrdered ==
    (call.fn = "detectState" /\ call.result # "none")
    => /\ call.result \in {"offline", "working", "stopped"}
       /\ call.result = "offline" <=> call.current = Null
       /\ call.result = "working"
          <=> /\ call.current # Null
              /\ call.previous = Null \/ call.previous # call.current
       /\ call.result = "stopped"
          <=> /\ call.current # Null
              /\ call.previous = call.current
       /\ \A n \in 0..MaxStable :
             detectState(call.current, call.previous, n) = call.result

\* Both captures absent: offline, the absence of current being looked at
\* first.
C25_Witness ==
    /\ call.fn = "detectState"
    /\ call.current = Null
    /\ call.previous = Null
    /\ call.stableCount = MaxStable
    /\ call.result = "offline"

C27_NormalizeIdempotent ==
    (call.fn = "cleanCapture" /\ call.twice # NotReturned)
    => call.twice = call.once

\* splitForDiscord has returned.
Split == call.fn = "splitForDiscord" /\ call.returned

\* The lines of all the chunks, in the order of the chunks.
RECURSIVE LinesOfChunks(_)
LinesOfChunks(chunks) ==
    IF chunks = <<>> THEN <<>>
    ELSE SplitLines(chunks[1]) \o LinesOfChunks(Tail(chunks))

\* C28: the lines of the chunks, taken chunk after chunk, are the lines of
\* the text, empty lines included, each whole and in the original order.
C28_ChunkingLosesNoLine ==
    Split => LinesOfChunks(call.chunks) = SplitLines(call.text)

\* C29: a chunk longer than maxLen is a single line of the text; a chunk of
\* several lines is never longer than maxLen.
C29_ChunksWithinLimit ==
    Split
    => \A k \in 1..Len(call.chunks) :
          Len(call.chunks[k]) > call.maxLen
          => /\ \A j \in 1..Len(call.chunks[k]) : call.chunks[k][j] # NL
             /\ \E j \in 1..Len(SplitLines(call.text)) :
                   SplitLines(call.text)[j] = call.chunks[k]

\* A line of three characters under a limit of two is a chunk of its own.
C29_Witness ==
    /\ Split
    /\ call.maxLen = 2
    /\ call.text = <<"a", NL, "a", "a", "a">>
    /\ call.chunks = << <<"a">>, <<"a", "a", "a">> >>

\* C30: the result is never the empty sequence; a text within the limit,
\* the empty text included, comes back as the one chunk; a longer text gives
\* at least one chunk and no empty chunk.
C30_NeverEmptyResult ==
    Split
    => /\ call.chunks # <<>>
       /\ Len(call.text) <= call.maxLen => call.chunks = <<call.text>>
       /\ Len(call.text) > call.maxLen
          => \A k \in 1..Len(call.chunks) : call.chunks[k] # <<>>

\* The content is empty, whitespace only, or longer than the limit.
Rejectable(content) ==
    content = <<>> \/ trim(content) = <<>> \/ Len(content) > MaxContentLen

WithoutNul(content) == SelectSeq(content, LAMBDA c : c # NUL)

\* The project of message m was found in the state.
ProjectFound(m) == route.notices[m] # <<"notfound">>

\* Message m was turned away: nothing typed, nothing handed on, the handler
\* has returned and the channel got the one warning.
TurnedAway(m) ==
    /\ route.typed[m] = 0
    /\ route.calls[m] = 0
    /\ route.forwarded[m] = Null
    /\ Returned(m)
    /\ route.notices[m] = <<"invalid">>

\* Message m is handed on, or has been, as the text t.
HandedOn(m, t) ==
    /\ route.notices[m] # <<"invalid">>
    /\ route.forwarded[m] \in {Null, t}
    /\ Returned(m) => route.forwarded[m] = t

\* C31 as stated: a message of a known project that is empty, whitespace
\* only or longer than 10000 characters makes sanitizeInput return null, is
\* never typed or handed to the terminal session and gets one warning; any
\* other message is handed on with its null bytes removed and otherwise
\* unchanged.
C31_RejectedOrForwarded ==
    \A m \in 1..route.n :
       ProjectFound(m)
       => IF Rejectable(route.received[m])
          THEN sanitizeInput(route.received[m]) = Null /\ TurnedAway(m)
          ELSE HandedOn(m, WithoutNul(route.received[m]))

\* C31 amended: a message of null bytes only is turned away as well,
\* sanitizeInput returning the empty text for it.
C31_RejectedOrNulOnlyOrForwarded ==
    \A m \in 1..route.n :
       ProjectFound(m)
       => IF Rejectable(route.received[m])
          THEN sanitizeInput(route.received[m]) = Null /\ TurnedAway(m)
          ELSE IF WithoutNul(route.received[m]) = <<>>
          THEN sanitizeInput(route.received[m]) = <<>> /\ TurnedAway(m)
          ELSE HandedOn(m, WithoutNul(route.received[m]))

\* A message with a null byte inside went to the codex submitter without it.
C31_Witness ==
    /\ route.n = 1
    /\ Returned(1)
    /\ route.received[1] = <<"h", NUL, "i">>
    /\ route.forwarded[1] = <<"h", "i">>
    /\ route.calls[1] = 1

\* C32: between the ticks of a target, notifiedWorking implies that
\* stableCount is 0, also after ticks in which a send failed or a hook
\* rejected.
C32_OutstandingMeansNotStable ==
    \A t \in Targets :
        (Quiet(t) /\ CurrentState(t).notifiedWorking)
        => CurrentState(t).stableCount = 0

\* The last finished tick of t found the notice outstanding and either took
\* the same capture as the tick before it or failed to capture.
RepeatedOrFailed(t) ==
    /\ lastPoll[t].before.notifiedWorking
    /\ \/ lastPoll[t].cls = "offline"
       \/ /\ lastPoll[t].cls \in {"working", "stopped"}
          /\ lastPoll[t].capture = lastPoll[t].before.previousCapture

\* The awaits of pollAgent, each of which is left when its promise settles.
Awaits ==
    {"awaitStoppedHook", "awaitEndedSend", "awaitWorkingSend",
     "awaitCompleteHook", "awaitChunkSend"}

\* A step of the tick r inside pollAgent takes it to the next await of its
\* branch, or to one chunk less to send, or back to pollAll's loop.
Advances(r) ==
    (InPollAgent(r) /\ runs'[r] # runs[r])
    => \/ ~InPollAgent(r)'
       \/ runs[r].pc = "awaitStoppedHook" /\ runs'[r].pc = "awaitEndedSend"
       \/ runs[r].pc = "awaitCompleteHook" /\ runs'[r].pc = "awaitChunkSend"
       \/ /\ runs[r].pc = "awaitChunkSend" /\ runs'[r].pc = "awaitChunkSend"
          /\ Len(runs'[r].chunks) < Len(runs[r].chunks)

IsCompletion(cls, before) ==
    cls = "stopped" /\ before.notifiedWorking /\ before.stableCount = 0

IsSessionEnded(cls, before) == cls = "offline" /\ before.notifiedWorking

\* The events of a tick of class cls that began in the poll state before
\* have the hooks where they belong: onAgentComplete once on a completion
\* tick, onAgentStopped once on a session-ended tick, as the first event of
\* the tick, and no hook otherwise.
HooksCoupled(evs, cls, before) ==
    /\ Count(evs, HookEvent("onAgentComplete"))
          = (IF IsCompletion(cls, before) THEN 1 ELSE 0)
    /\ Count(evs, HookEvent("onAgentStopped"))
          = (IF IsSessionEnded(cls, before) THEN 1 ELSE 0)
    /\ \A i \in 2..Len(evs) : evs[i] \notin ResolutionHooks

\* C34: every finished tick has its hooks coupled to its kind, the hook
\* coming before every send of the tick; and a tick that is suspended has
\* called the hook of its branch once, first, and, as long as it is in the
\* completion or the session-ended branch, notifiedWorking is still set.
C34_HooksCoupledToResolutions ==
    /\ \A t \in Targets :
          HooksCoupled(lastPoll[t].emitted, lastPoll[t].cls, lastPoll[t].before)
    /\ \A r \in 1..MaxInflight :
          InPollAgent(r)
          => /\ HooksCoupled(runs[r].emitted, runs[r].cls, runs[r].before)
             /\ runs[r].pc = "awaitCompleteHook"
                => runs[r].emitted = <<HookEvent("onAgentComplete")>>
             /\ runs[r].pc = "awaitStoppedHook"
                => runs[r].emitted = <<HookEvent("onAgentStopped")>>
             /\ runs[r].pc # "awaitWorkingSend"
                => CurrentState(TargetOf(r)).notifiedWorking

\* Both hooks have been called for a target, each before its notice.
C34_Witness ==
    \E t \in Targets :
        /\ Quiet(t)
        /\ log[t] = << SendEvent(WorkingNotice),
                       HookEvent("onAgentComplete"),
                       SendEvent(CompletionMessage(X)),
                       SendEvent(WorkingNotice),
                       HookEvent("onAgentStopped"),
                       SendEvent(EndedNotice) >>

\* The step is taken by a tick that is processing the target t.
Processing(t) ==
    \E r \in 1..MaxInflight :
        /\ runs'[r] # runs[r]
        /\ runs[r].pc # "idle"
        /\ runs[r].idx \in 1..Len(TargetOrder)
        /\ TargetOf(r) = t

\* C35: the poll state of a pair changes only in steps of a tick that is
\* processing that pair, whatever the names of the two distinct pairs are.
C35_TickTouchesOwnEntryOnly ==
    [][\A t \in Targets :
          CurrentState(t)' # CurrentState(t) => Processing(t)]_vars

\* The step is a call of start() that found the poller running.
StartedAgain == call' # call /\ call'.fn = "start" /\ call'.running

\* C36: there is never more than one interval timer, and there is one
\* exactly while the poller is started, so that stop() leaves none; a call of
\* start() that finds the poller running enters no pollAll and leaves the
\* poller as it is; and pollAll is entered only with the one timer installed.
C36_StartIdempotent ==
    /\ [](intervals <= 1 /\ (timer <=> intervals = 1))
    /\ [][StartedAgain => (TicksBegun = {} /\ UNCHANGED pollerVars)]_vars
    /\ [][TicksBegun # {} => (timer' /\ intervals' = 1)]_vars

\* start() was called again after the first tick had finished, and the
\* timer has fired once since.
C36_Witness ==
    /\ call = [fn |-> "start", running |-> TRUE]
    /\ timer
    /\ intervals = 1
    /\ captures = 2 * NumPollable

\* C37: the hourglass of a message is replaced at most once, by the success
\* mark or by the failure mark and never by both.
C37_ResolvedAtMostOnce ==
    \A m \in 1..route.n :
        /\ Len(route.marks[m]) <= 1
        /\ ~(Count(route.marks[m], "completed") > 0
              /\ Count(route.marks[m], "failed") > 0)

\* Message m carries the hourglass and no replacement of it has begun.
Waiting(m) == route.reaction[m] = "waiting"

\* C38: a message that carries the hourglass is the pending message of an
\* agent, so that the completion, the stop or the failure of that agent
\* resolves it; the mark functions resolve no message but the pending one.
C38_WaitingIsTracked ==
    \A m \in 1..route.n :
        Waiting(m) => \E a \in AgentTypes : route.pending[a] = m

\* C39: submit() has returned true for a slash command only if the needle
\* was on a line of the baseline capture, taken after the typing and before
\* the first Enter, and is on no line of the capture taken after the latest
\* Enter.
C39_SlashAcceptedOnlyIfSeenBefore ==
    (isSlashCommand(submit.prompt) /\ submit.result = "true")
    => /\ captureContainsNeedle(submit.typedCapture, submit.prompt)
       /\ ~captureContainsNeedle(submit.after, submit.prompt)

\* The handlers that have run to their last statement.
NumRouted ==
    Cardinality({m \in 1..route.n :
                    Returned(m) /\ route.results[m] # "none"})

\* C40: when the tmux layer has thrown while message m was routed, the
\* handler returns all the same; then the channel has got exactly one notice
\* for the message, the error notice, the message, when it was pending,
\* has been marked failed, and lastActive has been updated for it as for
\* every message routed.
C40_TmuxFailureCaught ==
    /\ route.pc \in {"idle", "reacted", "submitting", "opencodeTyped", "marking"}
    /\ route.lastActive = NumRouted
    /\ \A m \in 1..route.n :
          (route.results[m] = "threw" /\ Returned(m))
          => /\ route.notices[m] = <<"error">>
             /\ \/ route.reaction[m] = "none"
                \/ \E i \in 1..Len(route.marks[m]) :
                      route.marks[m][i] = "failed"

====
